---- MODULE Spec2Model ----
(***************************************************************************)
(* Model of the loan-applicant spreadsheet ingestion service               *)
(* (app/main.py, app/validator.py, app/llm_service.py).                    *)
(*                                                                         *)
(* Python values are records [t |-> type tag, s |-> str(value)]: text is a *)
(* TLA+ string, read one character at a time with SubSeq(s, i, i).         *)
(***************************************************************************)
EXTENDS Integers, Sequences, FiniteSets, TLC

VARIABLES
    pc,              \* position of the running handler / function call
    file,            \* the upload: [empty, sheet], the sheet a sequence of rows of cells
    dframe,          \* df, the DataFrame of the running upload
    arg,             \* argument of the function under call
    ret,             \* value the function returned
    rows,            \* mapped_rows / clean_data of the running upload
    mapping_source,  \* "direct_header" | "content_heuristic"
    batch_tag,       \* uuid4().hex[:8].upper() of the running upload
    i,               \* 1-based index of the next row to insert
    inserted,        \* rows_inserted
    skipped,         \* duplicates_skipped
    failed,          \* failed_rows
    db,              \* the loaners table: the set of persisted records
    uploads          \* number of uploads started

vars == <<pc, file, dframe, arg, ret, rows, mapping_source, batch_tag, i, inserted,
          skipped, failed, db, uploads>>

(***************************************************************************)
(* Characters and strings                                                  *)
(***************************************************************************)
DIGITS == "0123456789"
UPPER == "ABCDEFGHIJKLMNOPQRSTUVWXYZ"
LOWER == "abcdefghijklmnopqrstuvwxyz"
\* printable ASCII in code point order, from the space (32) to "_" (95) ...
ASCII_LO == " !\"#$%&'()*+,-./0123456789:;<=>?@ABCDEFGHIJKLMNOPQRSTUVWXYZ[\\]^_"
\* ... and from "a" (97) on; the backquote (96) cannot be written in a string
ASCII_HI == "abcdefghijklmnopqrstuvwxyz{|}~"

Ch(s, k) == SubSeq(s, k, k)

\* the function f with its values computed once, not at every application
Table(f) == f @@ <<>>

Chars(s) == {Ch(s, k) : k \in 1..Len(s)}

DigitSet == Chars(DIGITS)
UpperSet == Chars(UPPER)
LowerSet == Chars(LOWER)

IndexIn(c, s) == CHOOSE k \in 1..Len(s) : Ch(s, k) = c

AlphaSet == UpperSet \cup LowerSet
AsciiLoSet == Chars(ASCII_LO)
AsciiHiSet == Chars(ASCII_HI)

IsDigit(c) == c \in DigitSet
IsAlpha(c) == c \in AlphaSet
IsAlnum(c) == IsDigit(c) \/ IsAlpha(c)
IsSpace(c) == c \in {" ", "\t", "\n", "\r", "\f"}
\* \w of the regular expressions
IsWord(c) == IsAlnum(c) \/ c = "_"

LowerCh(c) == IF c \in UpperSet THEN Ch(LOWER, IndexIn(c, UPPER)) ELSE c
UpperCh(c) == IF c \in LowerSet THEN Ch(UPPER, IndexIn(c, LOWER)) ELSE c

\* code point of a printable character (control characters sort first)
Ord(c) ==
    IF c \in AsciiLoSet THEN 31 + IndexIn(c, ASCII_LO)
    ELSE IF c \in AsciiHiSet THEN 96 + IndexIn(c, ASCII_HI)
    ELSE 10

RECURSIVE StrLower(_)
StrLower(s) == IF s = "" THEN "" ELSE LowerCh(Ch(s, 1)) \o StrLower(Tail(s))

RECURSIVE LStrip(_)
LStrip(s) == IF s # "" /\ IsSpace(Ch(s, 1)) THEN LStrip(Tail(s)) ELSE s

RECURSIVE RStrip(_)
RStrip(s) ==
    IF s # "" /\ IsSpace(Ch(s, Len(s))) THEN RStrip(SubSeq(s, 1, Len(s) - 1)) ELSE s

\* str.strip()
Strip(s) == RStrip(LStrip(s))

RECURSIVE LStripCh(_, _)
LStripCh(s, c) == IF s # "" /\ Ch(s, 1) = c THEN LStripCh(Tail(s), c) ELSE s

RECURSIVE RStripCh(_, _)
RStripCh(s, c) ==
    IF s # "" /\ Ch(s, Len(s)) = c THEN RStripCh(SubSeq(s, 1, Len(s) - 1), c) ELSE s

\* str.strip(c) for a single character c
StripCh(s, c) == RStripCh(LStripCh(s, c), c)

StartsWith(s, p) == Len(s) >= Len(p) /\ SubSeq(s, 1, Len(p)) = p
EndsWith(s, p) == Len(s) >= Len(p) /\ SubSeq(s, Len(s) - Len(p) + 1, Len(s)) = p

AllDigits(s) == \A k \in 1..Len(s) : IsDigit(Ch(s, k))

\* re.sub(r"\D", "", s)
RECURSIVE OnlyDigits(_)
OnlyDigits(s) ==
    IF s = "" THEN ""
    ELSE (IF IsDigit(Ch(s, 1)) THEN Ch(s, 1) ELSE "") \o OnlyDigits(Tail(s))

\* len(s.split()): the number of whitespace-separated words
RECURSIVE WordCount(_, _)
WordCount(s, inWord) ==
    IF s = "" THEN 0
    ELSE IF IsSpace(Ch(s, 1)) THEN WordCount(Tail(s), FALSE)
    ELSE (IF inWord THEN 0 ELSE 1) + WordCount(Tail(s), TRUE)

\* int(s) for a string of decimal digits
RECURSIVE ParseInt(_)
ParseInt(s) ==
    IF s = "" THEN 0
    ELSE 10 * ParseInt(SubSeq(s, 1, Len(s) - 1)) + (IndexIn(Ch(s, Len(s)), DIGITS) - 1)

\* str(n) for n >= 0
RECURSIVE IntStr(_)
IntStr(n) ==
    IF n < 10 THEN Ch(DIGITS, n + 1) ELSE IntStr(n \div 10) \o Ch(DIGITS, (n % 10) + 1)

\* lexicographic s < u by code point
RECURSIVE StrLess(_, _)
StrLess(s, u) ==
    IF u = "" THEN FALSE
    ELSE IF s = "" THEN TRUE
    ELSE IF Ch(s, 1) = Ch(u, 1) THEN StrLess(Tail(s), Tail(u))
    ELSE Ord(Ch(s, 1)) < Ord(Ch(u, 1))

(***************************************************************************)
(* Python values                                                           *)
(***************************************************************************)
None == [t |-> "None", s |-> "None"]
NaN == [t |-> "float", s |-> "nan"]
Str(s) == [t |-> "str", s |-> s]
PyInt(s) == [t |-> "int", s |-> s]
PyFloat(s) == [t |-> "float", s |-> s]

\* str(value)
PyStr(v) == v.s

IsNaN(v) == v.t = "float" /\ v.s = "nan"
\* pandas isna()
IsNA(v) == v = None \/ IsNaN(v)

(***************************************************************************)
(* validator.REQUIRED_FIELDS and main.FIELD_ALIASES                        *)
(***************************************************************************)
REQUIRED_FIELDS ==
    <<"loaner_id", "fullname", "mobile_no", "loaner_adhar", "total_amount",
      "total_land", "descrition">>

FieldSet == {REQUIRED_FIELDS[k] : k \in 1..Len(REQUIRED_FIELDS)}

\* each alias set in the order it is written; the order in which Python
\* iterates a set of strings depends on the process's hash seed (AliasOrders)
FIELD_ALIASES ==
    [loaner_id |-> <<"loaner_id", "loanerid", "id", "app_id", "application_id">>,
     fullname |-> <<"fullname", "full_name", "name", "customer_name">>,
     mobile_no |-> <<"mobile_no", "mobile", "mobile_number", "phone", "phone_no">>,
     loaner_adhar |-> <<"loaner_adhar", "loaner_aadhar", "aadhar", "aadhaar", "adhar_no">>,
     total_amount |-> <<"total_amount", "amount", "loan_amount", "total_loan_amount">>,
     total_land |-> <<"total_land", "land", "land_size", "land_area">>,
     descrition |-> <<"descrition", "description", "purpose", "remarks">>]

Range(q) == {q[k] : k \in 1..Len(q)}

RECURSIVE Reverse(_)
Reverse(q) == IF q = <<>> THEN <<>> ELSE Reverse(Tail(q)) \o <<Head(q)>>

\* iteration orders of the alias sets a process may see
AliasOrders ==
    {FIELD_ALIASES, [f \in FieldSet |-> Reverse(FIELD_ALIASES[f])]}

(***************************************************************************)
(* _normalize_column_name                                                  *)
(***************************************************************************)
\* re.sub(r"[^a-zA-Z0-9]+", "_", s): each run of other characters becomes one "_"
RECURSIVE SubNonAlnumRuns(_, _)
SubNonAlnumRuns(s, inRun) ==
    IF s = "" THEN ""
    ELSE IF IsAlnum(Ch(s, 1)) THEN Ch(s, 1) \o SubNonAlnumRuns(Tail(s), FALSE)
    ELSE (IF inRun THEN "" ELSE "_") \o SubNonAlnumRuns(Tail(s), TRUE)

\* re.sub(r"_+", "_", s)
RECURSIVE CollapseUnderscores(_, _)
CollapseUnderscores(s, inRun) ==
    IF s = "" THEN ""
    ELSE IF Ch(s, 1) # "_" THEN Ch(s, 1) \o CollapseUnderscores(Tail(s), FALSE)
    ELSE (IF inRun THEN "" ELSE "_") \o CollapseUnderscores(Tail(s), TRUE)

_normalize_column_name(name) ==
    LET normalized == SubNonAlnumRuns(StrLower(Strip(PyStr(name))), FALSE)
    IN  StripCh(CollapseUnderscores(normalized, FALSE), "_")

\* _clean_nan
_clean_nan(value) ==
    IF IsNaN(value) THEN None
    ELSE IF value.t = "str"
         THEN (IF Strip(value.s) = "" THEN None ELSE Str(Strip(value.s)))
    ELSE value

(***************************************************************************)
(* pandas.read_excel: the sheet as a DataFrame [columns, data].            *)
(* header = AbsentRow is header=None: every row is data and the columns    *)
(* are labelled 0, 1, ...; header = k takes row k as the labels (a blank   *)
(* label becomes "Unnamed: j", a repeated one gets ".1", ".2", ...) and    *)
(* the rows below it as data.                                              *)
(***************************************************************************)
\* Python's None where an integer is expected
AbsentRow == 0 - 1

Width(sheet) == IF sheet = <<>> THEN 0 ELSE Len(sheet[1])

IsBlankCell(v) == IsNA(v) \/ (v.t = "str" /\ v.s = "")

HeaderLabels(cells) ==
    LET base == Table([j \in 1..Len(cells) |->
                    IF IsBlankCell(cells[j]) THEN "Unnamed: " \o IntStr(j - 1)
                    ELSE PyStr(cells[j])])
        seen(j) == Cardinality({m \in 1..(j - 1) : base[m] = base[j]})
    IN  [j \in 1..Len(cells) |->
            IF seen(j) = 0 THEN Str(base[j])
            ELSE Str(base[j] \o "." \o IntStr(seen(j)))]

read_excel(sheet, header) ==
    IF header = AbsentRow
    THEN [columns |-> [j \in 1..Width(sheet) |-> PyInt(IntStr(j - 1))], data |-> sheet]
    ELSE IF header + 1 > Len(sheet)
    THEN [columns |-> <<>>, data |-> <<>>]
    ELSE [columns |-> HeaderLabels(sheet[header + 1]),
          data |-> SubSeq(sheet, header + 2, Len(sheet))]

\* DataFrame.dropna(how="all")
dropna_all(df) ==
    LET NotAllNA(row) == \E j \in 1..Len(row) : ~IsNA(row[j])
    IN  [columns |-> df.columns, data |-> SelectSeq(df.data, NotAllNA)]

(***************************************************************************)
(* _resolve_field_mapping                                                  *)
(***************************************************************************)
AllAliases == UNION {Range(FIELD_ALIASES[f]) : f \in FieldSet}

\* _normalize_column_name(alias) of every alias
alias_normalized == Table([a \in AllAliases |-> _normalize_column_name(Str(a))])

\* lines 54-58: the dict from a normalized label to its column, the last
\* one with that label; a column is named by its position
normalized_to_actual(columns) ==
    LET normalized ==
            Table([j \in 1..Len(columns) |-> _normalize_column_name(columns[j])])
        labelled == {j \in 1..Len(columns) : ~StartsWith(normalized[j], "unnamed")}
    IN  [n \in {normalized[j] : j \in labelled} |->
            CHOOSE j \in labelled :
                normalized[j] = n /\ \A m \in labelled : normalized[m] = n => m <= j]

\* lines 63-68, the loop over the aliases of one field: the column of the
\* first alias, in iteration order, that labels one (0: matched_col is None)
RECURSIVE matched_col(_, _)
matched_col(n2a, candidates) ==
    IF candidates = <<>> THEN 0
    ELSE IF alias_normalized[Head(candidates)] \in DOMAIN n2a
    THEN n2a[alias_normalized[Head(candidates)]]
    ELSE matched_col(n2a, Tail(candidates))

RECURSIVE MutResolveFields(_, _, _, _)
\* a field without a column is left out of the mapping
MutResolveFields(n2a, order, k, field_to_column) ==
    IF k > Len(REQUIRED_FIELDS) THEN [none |-> FALSE, field_to_column |-> field_to_column]
    ELSE LET field == REQUIRED_FIELDS[k]
             col == matched_col(n2a, order[field])
         IN  IF col = 0 THEN MutResolveFields(n2a, order, k + 1, field_to_column)
             ELSE MutResolveFields(n2a, order, k + 1, field_to_column @@ (field :> col))

\* lines 61-72, the loop over REQUIRED_FIELDS from field k on
RECURSIVE resolve_fields(_, _, _, _)
resolve_fields(n2a, order, k, field_to_column) ==
    IF k > Len(REQUIRED_FIELDS) THEN [none |-> FALSE, field_to_column |-> field_to_column]
    ELSE LET field == REQUIRED_FIELDS[k]
             col == matched_col(n2a, order[field])
         IN  IF col = 0 THEN [none |-> TRUE, field_to_column |-> <<>>]
             ELSE resolve_fields(n2a, order, k + 1, field_to_column @@ (field :> col))

_resolve_field_mapping(df, order) ==
    resolve_fields(normalized_to_actual(df.columns), order, 1, <<>>)

(***************************************************************************)
(* ALIAS_TO_FIELD and _detect_header_row                                   *)
(***************************************************************************)
NormalizedAliases == {alias_normalized[a] : a \in AllAliases}

\* _build_alias_to_field: a later field overwrites an earlier one
ALIAS_TO_FIELD ==
    Table([n \in NormalizedAliases |->
        LET owners == {k \in 1..Len(REQUIRED_FIELDS) :
                          \E a \in Range(FIELD_ALIASES[REQUIRED_FIELDS[k]]) :
                              alias_normalized[a] = n}
        IN  REQUIRED_FIELDS[CHOOSE k \in owners : \A m \in owners : m <= k]])

max_rows == 15
min_score == 4

\* one row's score: the distinct fields its non-empty cells name
matched_fields(raw_cells) ==
    LET normalized == {_normalize_column_name(raw_cells[j]) :
                          j \in {m \in 1..Len(raw_cells) :
                                    raw_cells[m] # None /\ Strip(PyStr(raw_cells[m])) # ""}}
    IN  {ALIAS_TO_FIELD[n] : n \in normalized \cap NormalizedAliases}

RECURSIVE MutDetectScan(_, _, _, _, _)
\* a later row of the same score wins: >= for > in line 100
MutDetectScan(probe, check_rows, r, best_idx, best_score) ==
    IF r >= check_rows
    THEN [row |-> IF best_score >= min_score THEN best_idx ELSE AbsentRow, examined |-> r]
    ELSE LET score == Cardinality(matched_fields(probe[r + 1]))
             idx == IF score >= best_score THEN r ELSE best_idx
             best == IF score >= best_score THEN score ELSE best_score
         IN  IF score = Len(REQUIRED_FIELDS)
             THEN [row |-> r, examined |-> r + 1]
             ELSE MutDetectScan(probe, check_rows, r + 1, idx, best)

\* the scan from row index r on (0-based); examined counts the rows read
RECURSIVE detect_scan(_, _, _, _, _)
detect_scan(probe, check_rows, r, best_idx, best_score) ==
    IF r >= check_rows
    THEN [row |-> IF best_score >= min_score THEN best_idx ELSE AbsentRow, examined |-> r]
    ELSE LET score == Cardinality(matched_fields(probe[r + 1]))
             idx == IF score > best_score THEN r ELSE best_idx
             best == IF score > best_score THEN score ELSE best_score
         IN  IF score = Len(REQUIRED_FIELDS)
             THEN [row |-> r, examined |-> r + 1]
             ELSE detect_scan(probe, check_rows, r + 1, idx, best)

_detect_header_row(sheet) ==
    LET probe_df == read_excel(sheet, AbsentRow)
        check_rows == IF Len(probe_df.data) < max_rows THEN Len(probe_df.data) ELSE max_rows
    IN  detect_scan(probe_df.data, check_rows, 0, AbsentRow, 0)

(***************************************************************************)
(* _load_excel_with_best_header and _extract_direct_rows                   *)
(***************************************************************************)
\* the locator's row is not used: row 0 stays the header
MutBestHeader(sheet, order) ==
    IF ~_resolve_field_mapping(read_excel(sheet, 0), order).none THEN 0 ELSE 0

\* the header row the returned DataFrame was parsed with
best_header(sheet, order) ==
    LET header_row == _detect_header_row(sheet).row
    IN  IF ~_resolve_field_mapping(read_excel(sheet, 0), order).none THEN 0
        ELSE IF header_row # AbsentRow THEN header_row
        ELSE 0

_load_excel_with_best_header(sheet, order) == read_excel(sheet, best_header(sheet, order))

\* direct_rows, or none; error is the KeyError of line 127 on a mapping that
\* lacks a field
_extract_direct_rows(df0, order) ==
    LET df == dropna_all(df0)
        m == _resolve_field_mapping(df, order)
    IN  IF m.none THEN [none |-> TRUE, error |-> FALSE, rows |-> <<>>]
        ELSE IF DOMAIN m.field_to_column # FieldSet
        THEN [none |-> FALSE, error |-> TRUE, rows |-> <<>>]
        ELSE [none |-> FALSE, error |-> FALSE,
              rows |-> [r \in 1..Len(df.data) |->
                          [field \in FieldSet |->
                              _clean_nan(df.data[r][m.field_to_column[field]])]]]

(***************************************************************************)
(* Numbers: float(text) keeps the decimal digits, as repr() prints them    *)
(***************************************************************************)
RECURSIVE LStripZeros(_)
LStripZeros(s) == IF Len(s) > 1 /\ Ch(s, 1) = "0" THEN LStripZeros(Tail(s)) ELSE s

RECURSIVE RStripZeros(_)
RStripZeros(s) ==
    IF Len(s) > 1 /\ Ch(s, Len(s)) = "0" THEN RStripZeros(SubSeq(s, 1, Len(s) - 1)) ELSE s

\* position of the first "." of s, 0 when there is none
DotAt(s) ==
    IF \E k \in 1..Len(s) : Ch(s, k) = "."
    THEN CHOOSE k \in 1..Len(s) : Ch(s, k) = "." /\ \A m \in 1..(k - 1) : Ch(s, m) # "."
    ELSE 0

IntPart(s) == IF DotAt(s) = 0 THEN s ELSE SubSeq(s, 1, DotAt(s) - 1)
FracPart(s) == IF DotAt(s) = 0 THEN "" ELSE SubSeq(s, DotAt(s) + 1, Len(s))

\* re.fullmatch(r"\d+(\.\d+)?", s)
IsPlainNumber(s) ==
    /\ IntPart(s) # "" /\ AllDigits(IntPart(s))
    /\ DotAt(s) # 0 => (FracPart(s) # "" /\ AllDigits(FracPart(s)))

\* float(s) of a plain number
FloatOfPlain(s) ==
    PyFloat(LStripZeros(IntPart(s)) \o "." \o
            (IF FracPart(s) = "" THEN "0" ELSE RStripZeros(FracPart(s))))

IsFinite(n) == n.t = "float" /\ n.s \notin {"nan", "inf", "-inf"}
Negative(n) == StartsWith(n.s, "-")
\* the digits of abs(int(n)) of a finite float n
Magnitude(n) == IF Negative(n) THEN Tail(IntPart(n.s)) ELSE IntPart(n.s)
\* n.is_integer()
is_integer(n) == IsFinite(n) /\ FracPart(n.s) = "0"
IsZero(n) == Magnitude(n) = "0" /\ FracPart(n.s) = "0"
\* n >= k for an integer k > 0 of at most 9 digits
FloatGE(n, k) ==
    /\ IsFinite(n) /\ ~Negative(n)
    /\ (Len(Magnitude(n)) > 9 \/ ParseInt(Magnitude(n)) >= k)
\* 0 < n < k
FloatBetween0(n, k) ==
    /\ IsFinite(n) /\ ~Negative(n) /\ ~IsZero(n)
    /\ Len(Magnitude(n)) <= 9 /\ ParseInt(Magnitude(n)) < k

(***************************************************************************)
(* _extract_rows_by_content                                                *)
(***************************************************************************)
LAND_WORDS == {"acre", "acres", "hectare", "hectares", "ha"}

\* re.search(r"\b(acre|acres|hectare|hectares|ha)\b", lower)
HasLandWord(lower) ==
    \E a \in 1..Len(lower), b \in 1..Len(lower) :
        /\ a <= b
        /\ SubSeq(lower, a, b) \in LAND_WORDS
        /\ (a = 1 \/ ~IsWord(Ch(lower, a - 1)))
        /\ (b = Len(lower) \/ ~IsWord(Ch(lower, b + 1)))

\* re.match(r"^[A-Za-z]{1,5}[-_ ]?\d{1,}$", text)
IsIdPattern(text) ==
    \E k \in 1..5 :
        /\ k < Len(text)
        /\ \A m \in 1..k : IsAlpha(Ch(text, m))
        /\ LET rest == SubSeq(text, k + 1, Len(text))
               tail == IF Ch(rest, 1) \in {"-", "_", " "} THEN Tail(rest) ELSE rest
           IN  tail # "" /\ AllDigits(tail)

\* text.replace(" ", "")
RECURSIVE RemoveSpaces(_)
RemoveSpaces(s) ==
    IF s = "" THEN ""
    ELSE (IF Ch(s, 1) = " " THEN "" ELSE Ch(s, 1)) \o RemoveSpaces(Tail(s))

NoFields == [field \in FieldSet |-> None]
NoOrigin == [field \in FieldSet |-> 0]

RECURSIVE MutClassifyCells(_, _, _)
\* the id pattern is tried before the digit counts
MutClassifyCells(values, k, st) ==
    IF k > Len(values) THEN st
    ELSE
    LET text == Strip(PyStr(values[k]))
        digits == OnlyDigits(text)
        lower == StrLower(text)
        take(field, v) ==
            [st EXCEPT !.inferred[field] = v, !.origin[field] = k]
    IN  IF st.inferred["total_land"] = None /\ HasLandWord(lower)
        THEN MutClassifyCells(values, k + 1, take("total_land", Str(text)))
        ELSE IF IsIdPattern(text) /\ st.inferred["loaner_id"] = None
        THEN MutClassifyCells(values, k + 1, take("loaner_id", Str(RemoveSpaces(text))))
        ELSE IF st.inferred["loaner_adhar"] = None /\ Len(digits) = 12
        THEN MutClassifyCells(values, k + 1, take("loaner_adhar", Str(digits)))
        ELSE IF /\ st.inferred["mobile_no"] = None
                /\ Len(digits) = 10
                /\ Ch(digits, 1) \in {"6", "7", "8", "9"}
        THEN MutClassifyCells(values, k + 1, take("mobile_no", Str(digits)))
        ELSE IF IsPlainNumber(text)
        THEN MutClassifyCells(values, k + 1,
                 [st EXCEPT !.numeric_candidates = Append(@, k)])
        ELSE MutClassifyCells(values, k + 1,
                 [st EXCEPT !.text_candidates = Append(@, k)])

\* the per-cell loop from value k on. st.inferred is the row being built,
\* st.origin[field] the position in values of the cell a field was taken
\* from (0: from none); the candidate pools hold positions in values
RECURSIVE classify_cells(_, _, _)
classify_cells(values, k, st) ==
    IF k > Len(values) THEN st
    ELSE
    LET text == Strip(PyStr(values[k]))
        digits == OnlyDigits(text)
        lower == StrLower(text)
        take(field, v) ==
            [st EXCEPT !.inferred[field] = v, !.origin[field] = k]
    IN  IF st.inferred["total_land"] = None /\ HasLandWord(lower)
        THEN classify_cells(values, k + 1, take("total_land", Str(text)))
        ELSE IF st.inferred["loaner_adhar"] = None /\ Len(digits) = 12
        THEN classify_cells(values, k + 1, take("loaner_adhar", Str(digits)))
        ELSE IF /\ st.inferred["mobile_no"] = None
                /\ Len(digits) = 10
                /\ Ch(digits, 1) \in {"6", "7", "8", "9"}
        THEN classify_cells(values, k + 1, take("mobile_no", Str(digits)))
        ELSE IF IsIdPattern(text) /\ st.inferred["loaner_id"] = None
        THEN classify_cells(values, k + 1, take("loaner_id", Str(RemoveSpaces(text))))
        ELSE IF IsPlainNumber(text)
        THEN classify_cells(values, k + 1,
                 [st EXCEPT !.numeric_candidates = Append(@, k)])
        ELSE classify_cells(values, k + 1,
                 [st EXCEPT !.text_candidates = Append(@, k)])

TextOf(values, k) == Strip(PyStr(values[k]))

\* max(text_candidates, key=len): the first of the longest
longest_text(values, cands) ==
    CHOOSE a \in 1..Len(cands) :
        /\ \A b \in 1..Len(cands) :
              Len(TextOf(values, cands[b])) <= Len(TextOf(values, cands[a]))
        /\ \A b \in 1..(a - 1) :
              Len(TextOf(values, cands[b])) < Len(TextOf(values, cands[a]))

\* lines 179-184
assign_text(values, st) ==
    IF st.text_candidates = <<>> THEN st
    ELSE
    LET cands == st.text_candidates
        d == cands[longest_text(values, cands)]
        descr == TextOf(values, d)
        names == {a \in 1..Len(cands) :
                     /\ TextOf(values, cands[a]) # descr
                     /\ WordCount(TextOf(values, cands[a]), FALSE) <= 4}
        st1 == [st EXCEPT !.inferred["descrition"] = Str(descr),
                          !.origin["descrition"] = d]
    IN  IF names = {} THEN st1
        ELSE LET a == CHOOSE x \in names : \A y \in names : x <= y
             IN  [st1 EXCEPT !.inferred["fullname"] = Str(TextOf(values, cands[a])),
                             !.origin["fullname"] = cands[a]]

\* one pass of the loop of lines 186-194 over candidate c
assign_number(values, st, c) ==
    LET n == FloatOfPlain(TextOf(values, c))
        st1 == IF st.inferred["total_amount"] = None /\ FloatGE(n, 1000)
               THEN [st EXCEPT !.inferred["total_amount"] = n,
                               !.origin["total_amount"] = c]
               ELSE st
    IN  IF /\ st1.inferred["loaner_id"] = None
           /\ is_integer(n)
           /\ FloatBetween0(n, 10000)
        THEN [st1 EXCEPT !.inferred["loaner_id"] = Str(IntPart(n.s)),
                         !.origin["loaner_id"] = c]
        ELSE st1

RECURSIVE assign_numbers(_, _, _)
assign_numbers(values, st, a) ==
    IF a > Len(st.numeric_candidates) THEN st
    ELSE assign_numbers(values, assign_number(values, st, st.numeric_candidates[a]), a + 1)

\* the values of one row: the cells _clean_nan does not turn into None
row_values(row) ==
    LET cleaned == Table([j \in 1..Len(row) |-> _clean_nan(row[j])])
        Kept(v) == v # None
    IN  SelectSeq(cleaned, Kept)

\* the body of the loop over the rows for one row with values: the inferred
\* row and the origin of each of its fields
infer_row(values, idx) ==
    LET st0 == [inferred |-> NoFields, origin |-> NoOrigin,
                text_candidates |-> <<>>, numeric_candidates |-> <<>>]
        st == assign_numbers(values, assign_text(values, classify_cells(values, 1, st0)), 1)
    IN  IF st.inferred["loaner_id"] = None
        THEN [st EXCEPT !.inferred["loaner_id"] = Str("TEMP" \o IntStr(idx))]
        ELSE st

RECURSIVE infer_rows(_, _)
infer_rows(data, idx) ==
    IF idx > Len(data) THEN <<>>
    ELSE IF row_values(data[idx]) = <<>> THEN infer_rows(data, idx + 1)
    ELSE <<infer_row(row_values(data[idx]), idx).inferred>> \o infer_rows(data, idx + 1)

\* for each inferred row, the cell of values each field was taken from
RECURSIVE origin_rows(_, _)
origin_rows(data, idx) ==
    IF idx > Len(data) THEN <<>>
    ELSE IF row_values(data[idx]) = <<>> THEN origin_rows(data, idx + 1)
    ELSE <<infer_row(row_values(data[idx]), idx).origin>> \o origin_rows(data, idx + 1)

\* inferred_rows, or none
_extract_rows_by_content(df0) ==
    LET inferred_rows == infer_rows(dropna_all(df0).data, 1)
    IN  [none |-> inferred_rows = <<>>, rows |-> inferred_rows]

(***************************************************************************)
(* validator.validate_and_clean                                            *)
(***************************************************************************)
\* float(text): the decimal forms with an optional sign, and nan / inf;
\* ok = FALSE is a ValueError
FloatOfStr(text) ==
    LET t == Strip(text)
        neg == StartsWith(t, "-")
        body == IF StartsWith(t, "-") \/ StartsWith(t, "+") THEN Tail(t) ELSE t
        sign == IF neg THEN "-" ELSE ""
        digitsOnly == IntPart(body) \o FracPart(body)
    IN  IF StrLower(body) = "nan" THEN [ok |-> TRUE, val |-> PyFloat("nan")]
        ELSE IF StrLower(body) \in {"inf", "infinity"}
        THEN [ok |-> TRUE, val |-> PyFloat(sign \o "inf")]
        ELSE IF digitsOnly # "" /\ AllDigits(digitsOnly)
        THEN [ok |-> TRUE,
              val |-> PyFloat(sign \o
                        LStripZeros(IF IntPart(body) = "" THEN "0" ELSE IntPart(body))
                        \o "." \o
                        (IF FracPart(body) = "" THEN "0" ELSE RStripZeros(FracPart(body))))]
        ELSE [ok |-> FALSE, val |-> None]

\* float(value), None when it raises
to_float(value) ==
    IF value.t = "float" THEN value
    ELSE IF value.t = "int" THEN PyFloat(value.s \o ".0")
    ELSE IF value.t = "str" /\ FloatOfStr(value.s).ok THEN FloatOfStr(value.s).val
    ELSE None

\* bool(value)
Truthy(value) ==
    IF value.t = "None" THEN FALSE
    ELSE IF value.t = "str" THEN value.s # ""
    ELSE IF value.t = "int" THEN value.s # "0"
    ELSE ~(IsFinite(value) /\ IsZero(value))

\* a pattern anchored by ^...$ under re.match: "$" also matches just before
\* a newline that ends the text
BeforeFinalNewline(text) ==
    IF EndsWith(text, "\n") THEN SubSeq(text, 1, Len(text) - 1) ELSE text

\* ^[6-9][0-9]{9}$ on the whole text
IsMobile(text) == Len(text) = 10 /\ AllDigits(text) /\ Ch(text, 1) \in {"6", "7", "8", "9"}
\* ^[0-9]{12}$ on the whole text
IsAdhar(text) == Len(text) = 12 /\ AllDigits(text)

\* re.match(r"^[6-9][0-9]{9}$", text)
MatchMobile(text) == IsMobile(text) \/ IsMobile(BeforeFinalNewline(text))
\* re.match(r"^[0-9]{12}$", text)
MatchAdhar(text) == IsAdhar(text) \/ IsAdhar(BeforeFinalNewline(text))

clean_total_amount(v) == IF v # None THEN to_float(v) ELSE v

clean_mobile_no(v) == IF Truthy(v) /\ ~MatchMobile(PyStr(v)) THEN None ELSE v

clean_loaner_adhar(v) == IF Truthy(v) /\ ~MatchAdhar(PyStr(v)) THEN None ELSE v

\* the body of the loop for one row
clean_row(row) ==
    [field \in FieldSet |->
        IF field = "total_amount" THEN clean_total_amount(row[field])
        ELSE IF field = "mobile_no" THEN clean_mobile_no(row[field])
        ELSE IF field = "loaner_adhar" THEN clean_loaner_adhar(row[field])
        ELSE row[field]]

validate_and_clean(data_list) == [k \in 1..Len(data_list) |-> clean_row(data_list[k])]

(***************************************************************************)
(* _ensure_loaner_id and _loaner_sort_key                                  *)
(***************************************************************************)
\* f"{index:04d}"
RECURSIVE ZeroPad(_, _)
ZeroPad(s, width) == IF Len(s) < width THEN ZeroPad("0" \o s, width) ELSE s

auto_id(index, tag) == "AUTO" \o tag \o ZeroPad(IntStr(index), 4)

\* str(int(f)) of a finite float f
IntOfFloatStr(f) ==
    IF Magnitude(f) = "0" THEN "0" ELSE IntPart(f.s)

\* the test for a blank text is missing
MutEnsureLoanerId(value, index, tag) ==
    IF value = None THEN auto_id(index, tag)
    ELSE LET text == Strip(PyStr(value))
         IN  IF EndsWith(text, ".0")
             THEN (IF FloatOfStr(text).ok /\ IsFinite(FloatOfStr(text).val)
                   THEN IntOfFloatStr(FloatOfStr(text).val)
                   ELSE text)
             ELSE text

_ensure_loaner_id(value, index, tag) ==
    IF value = None THEN auto_id(index, tag)
    ELSE LET text == Strip(PyStr(value))
         IN  IF text = "" THEN auto_id(index, tag)
             ELSE IF EndsWith(text, ".0")
             THEN (IF FloatOfStr(text).ok /\ IsFinite(FloatOfStr(text).val)
                   THEN IntOfFloatStr(FloatOfStr(text).val)
                   ELSE text)
             ELSE text

\* the leading letters of text
RECURSIVE AlphaPrefix(_)
AlphaPrefix(s) ==
    IF s # "" /\ IsAlpha(Ch(s, 1)) THEN Ch(s, 1) \o AlphaPrefix(Tail(s)) ELSE ""

\* the key as a tuple <<class, prefix, num, text>>
_loaner_sort_key(loaner_id) ==
    LET text == IF loaner_id = None THEN "" ELSE Strip(PyStr(loaner_id))
        prefix == AlphaPrefix(text)
        number == SubSeq(text, Len(prefix) + 1, Len(text))
    IN  IF number # "" /\ AllDigits(number)
        THEN <<0, StrLower(prefix), ParseInt(LStripZeros(number)), StrLower(text)>>
        ELSE <<1, StrLower(text), 0, StrLower(text)>>

\* Python's tuple order on two such keys
KeyLess(a, b) ==
    \/ a[1] < b[1]
    \/ a[1] = b[1] /\ StrLess(a[2], b[2])
    \/ a[1] = b[1] /\ a[2] = b[2] /\ a[3] < b[3]
    \/ a[1] = b[1] /\ a[2] = b[2] /\ a[3] = b[3] /\ StrLess(a[4], b[4])

(***************************************************************************)
(* The loaners table and the ORDER BY of the response                      *)
(***************************************************************************)
\* the String(n) columns of Loaner
column_lengths ==
    [loaner_id |-> 50, fullname |-> 255, mobile_no |-> 20, loaner_adhar |-> 20,
     total_land |-> 50, descrition |-> 500]

\* an INSERT of a record with this key violates the primary key
IsDuplicate(table, id) == \E r \in table : r["loaner_id"] = Str(id)

\* the record fits the table's columns (a stricter fit is the database's)
Storable(row) ==
    \A field \in DOMAIN column_lengths :
        row[field] = None \/ Len(PyStr(row[field])) <= column_lengths[field]

\* Loaner.loaner_id.op("REGEXP")(r"^[0-9]+$") -> 0, else 1
numeric_first(id) == IF id # "" /\ AllDigits(id) THEN 0 ELSE 1

RECURSIVE DigitPrefix(_)
DigitPrefix(s) ==
    IF s # "" /\ IsDigit(Ch(s, 1)) THEN Ch(s, 1) \o DigitPrefix(Tail(s)) ELSE ""

\* cast(Loaner.loaner_id, Integer): the leading digits, 0 when there are none
cast_integer(id) == IF DigitPrefix(id) = "" THEN 0 ELSE ParseInt(DigitPrefix(id))

RECURSIVE StrUpper(_)
StrUpper(s) == IF s = "" THEN "" ELSE UpperCh(Ch(s, 1)) \o StrUpper(Tail(s))

\* the column's collation is the database's choice
Collations == {"binary", "case_insensitive"}

CollationLess(a, b, collation) ==
    IF collation = "binary" THEN StrLess(a, b)
    ELSE \/ StrLess(StrUpper(a), StrUpper(b))
         \/ StrUpper(a) = StrUpper(b) /\ StrLess(a, b)

\* .order_by(numeric_first, cast(Loaner.loaner_id, Integer), Loaner.loaner_id)
order_by_less(a, b, collation) ==
    \/ numeric_first(a) < numeric_first(b)
    \/ numeric_first(a) = numeric_first(b) /\ cast_integer(a) < cast_integer(b)
    \/ /\ numeric_first(a) = numeric_first(b)
       /\ cast_integer(a) = cast_integer(b)
       /\ CollationLess(a, b, collation)

\* db.query(Loaner).order_by(...).all()
RECURSIVE ordered_rows(_, _)
ordered_rows(table, collation) ==
    IF table = {} THEN <<>>
    ELSE LET first == CHOOSE r \in table :
                        \A o \in table \ {r} :
                            order_by_less(r["loaner_id"].s, o["loaner_id"].s, collation)
         IN  <<first>> \o ordered_rows(table \ {first}, collation)

(***************************************************************************)
(* upload_excel                                                            *)
(***************************************************************************)
\* values of uuid4().hex[:8].upper()
BatchTags == {"AB12CD34", "0F9E8D7C"}

NoArg == [header_row |-> AbsentRow]
NoRet == [status |-> "none"]

NoFrame == [columns |-> <<>>, data |-> <<>>]

HandlerIdle ==
    /\ dframe = NoFrame
    /\ rows = <<>> /\ mapping_source = "" /\ batch_tag = ""
    /\ i = 0 /\ inserted = 0 /\ skipped = 0 /\ failed = 0

\* lines 259-261: a zero-byte upload is a 400
UploadEmpty ==
    /\ pc = "received"
    /\ file.empty
    /\ pc' = "rejected"
    /\ ret' = [status |-> "400", detail |-> "Uploaded file is empty"]
    /\ UNCHANGED <<file, dframe, arg, rows, mapping_source, batch_tag, i, inserted, skipped,
                   failed, db, uploads>>

\* line 263: the sheet is parsed, with the header row the locator finds when
\* row 0 does not map
LoadExcel ==
    /\ pc = "received"
    /\ ~file.empty
    /\ \E order \in AliasOrders :
          /\ dframe' = _load_excel_with_best_header(file.sheet, order)
          /\ arg' = [header_row |-> best_header(file.sheet, order)]
    /\ pc' = "loaded"
    /\ UNCHANGED <<file, ret, rows, mapping_source, batch_tag, i, inserted, skipped,
                   failed, db, uploads>>

\* lines 265-266, 280-281: the headers map every field
ExtractDirect ==
    /\ pc = "loaded"
    /\ \E order \in AliasOrders :
          /\ ~_extract_direct_rows(dframe, order).none
          /\ ~_extract_direct_rows(dframe, order).error
          /\ rows' = _extract_direct_rows(dframe, order).rows
    /\ mapping_source' = "direct_header"
    /\ pc' = "mapped"
    /\ UNCHANGED <<file, dframe, arg, ret, batch_tag, i, inserted, skipped, failed, db,
                   uploads>>

\* lines 267-269: they do not, and the content gives rows
ExtractContent ==
    /\ pc = "loaded"
    /\ \E order \in AliasOrders : _extract_direct_rows(dframe, order).none
    /\ ~_extract_rows_by_content(dframe).none
    /\ rows' = _extract_rows_by_content(dframe).rows
    /\ mapping_source' = "content_heuristic"
    /\ pc' = "mapped"
    /\ UNCHANGED <<file, dframe, arg, ret, batch_tag, i, inserted, skipped, failed, db,
                   uploads>>

\* lines 270-279: neither the headers nor the content give rows: a 400
UploadUnmappable ==
    /\ pc = "loaded"
    /\ \E order \in AliasOrders : _extract_direct_rows(dframe, order).none
    /\ _extract_rows_by_content(dframe).none
    /\ mapping_source' = "content_heuristic"
    /\ pc' = "rejected"
    /\ ret' = [status |-> "400", detail |-> "Excel columns could not be mapped"]
    /\ UNCHANGED <<file, dframe, arg, rows, batch_tag, i, inserted, skipped, failed, db,
                   uploads>>

\* lines 283-288: the rows are validated and the batch tag is drawn
Validate ==
    /\ pc = "mapped"
    /\ rows' = validate_and_clean(rows)
    /\ \E tag \in BatchTags : batch_tag' = tag
    /\ i' = 1 /\ inserted' = 0 /\ skipped' = 0 /\ failed' = 0
    /\ pc' = "inserting"
    /\ UNCHANGED <<file, dframe, arg, ret, mapping_source, db, uploads>>

\* the row the loop body hands to Loaner(**row): line 291
row_to_insert ==
    [rows[i] EXCEPT !["loaner_id"] = Str(_ensure_loaner_id(rows[i]["loaner_id"], i, batch_tag))]

\* lines 290-295: the nested unit of work commits
InsertRow ==
    /\ pc = "inserting" /\ i <= Len(rows)
    /\ ~IsDuplicate(db, row_to_insert["loaner_id"].s)
    /\ Storable(row_to_insert)
    /\ rows' = [rows EXCEPT ![i] = row_to_insert]
    /\ db' = db \cup {row_to_insert}
    /\ inserted' = inserted + 1
    /\ i' = i + 1
    /\ UNCHANGED <<pc, file, dframe, arg, ret, mapping_source, batch_tag, skipped, failed, uploads>>

\* the duplicate is counted with the failed rows
MutInsertDuplicate ==
    /\ pc = "inserting" /\ i <= Len(rows)
    /\ IsDuplicate(db, row_to_insert["loaner_id"].s)
    /\ rows' = [rows EXCEPT ![i] = row_to_insert]
    /\ failed' = failed + 1
    /\ i' = i + 1
    /\ UNCHANGED <<pc, file, dframe, arg, ret, mapping_source, batch_tag, inserted, skipped, db,
                   uploads>>

\* lines 296-297: IntegrityError, the savepoint is rolled back
InsertDuplicate ==
    /\ pc = "inserting" /\ i <= Len(rows)
    /\ IsDuplicate(db, row_to_insert["loaner_id"].s)
    /\ rows' = [rows EXCEPT ![i] = row_to_insert]
    /\ skipped' = skipped + 1
    /\ i' = i + 1
    /\ UNCHANGED <<pc, file, dframe, arg, ret, mapping_source, batch_tag, inserted, failed, db,
                   uploads>>

\* lines 298-299: any other error of the INSERT, the savepoint is rolled back
InsertFailed ==
    /\ pc = "inserting" /\ i <= Len(rows)
    /\ ~IsDuplicate(db, row_to_insert["loaner_id"].s)
    /\ ~Storable(row_to_insert)
    /\ rows' = [rows EXCEPT ![i] = row_to_insert]
    /\ failed' = failed + 1
    /\ i' = i + 1
    /\ UNCHANGED <<pc, file, dframe, arg, ret, mapping_source, batch_tag, inserted, skipped, db,
                   uploads>>

\* lines 301-333: commit, query in order, respond
Respond ==
    /\ pc = "inserting" /\ i > Len(rows)
    /\ \E collation \in Collations :
          ret' = [status |-> "success",
                  mapping_source |-> mapping_source,
                  rows_inserted |-> inserted,
                  duplicates_skipped |-> skipped,
                  failed_rows |-> failed,
                  total_processed |-> Len(rows),
                  data |-> ordered_rows(db, collation)]
    /\ pc' = "responded"
    /\ UNCHANGED <<file, dframe, arg, rows, mapping_source, batch_tag, i, inserted, skipped,
                   failed, db, uploads>>

(***************************************************************************)
(* Sheets: header detection and direct mapping                             *)
(***************************************************************************)
\* a row of text cells; an empty text is a blank cell (NaN)
TextRow(q) == [j \in 1..Len(q) |-> IF q[j] = "" THEN NaN ELSE Str(q[j])]

TitleRow == TextRow(<<"Loans 2024", "", "", "", "", "", "">>)
BlankRow == TextRow(<<"", "", "", "", "", "", "">>)
HeaderFriendly ==
    TextRow(<<"Loaner ID", "Full Name", " Mobile No. ", "AADHAAR", "Loan-Amount",
              "Land Area", "Purpose">>)
HeaderShuffled ==
    TextRow(<<"name", "id", "phone", "remarks", "amount", "land", "aadhar">>)
\* 5 distinct fields
HeaderFive == TextRow(<<"id", "name", "mobile", "amount", "land", "branch", "zone">>)
\* 4 distinct fields
HeaderFour == TextRow(<<"id", "name", "mobile", "amount", "", "branch", "zone">>)
\* 5 aliases of 3 distinct fields
HeaderThree ==
    TextRow(<<"mobile", "phone", "Mobile Number", "id", "name", "branch", "mobile">>)
DataRow1 ==
    TextRow(<<"LN-101", "Asha Rao", "9876543210", "123456789012", "50000", "2 acres",
              "tractor purchase">>)
DataRow2 ==
    <<Str("B7"), Str("Vikram Singh"), PyInt("9123456780"), NaN, PyInt("1200"),
      Str("1 hectare"), NaN>>
DataRow3 ==
    <<NaN, Str("Meena Kumari"), Str("12345"), Str("123"), Str("abc"), NaN, Str("  ")>>

RECURSIVE SeqsUpTo(_, _)
SeqsUpTo(S, n) ==
    IF n = 0 THEN {<<>>}
    ELSE SeqsUpTo(S, n - 1) \cup
         {Append(q, x) : q \in {u \in SeqsUpTo(S, n - 1) : Len(u) = n - 1}, x \in S}

\* k rows above the headers: a title, then blank rows
TitleRows(k) == [j \in 1..k |-> IF j = 1 THEN TitleRow ELSE BlankRow]

\* the data rows below the headers: DataRow1, DataRow2, DataRow3, DataRow1, ...
DataRows(n) == [k \in 1..n |-> <<DataRow1, DataRow2, DataRow3>>[((k - 1) % 3) + 1]]

MaxPrefix == 16
MaxBody == 2
MaxHeaders == 2
MaxData == 3

\* rows of the sheets given to _detect_header_row
DetectRowPool ==
    {HeaderFriendly, HeaderShuffled, HeaderFive, HeaderFour, HeaderThree, BlankRow}

\* title and blank rows, then up to MaxBody header-like rows, then a data row
DetectSheets ==
    {TitleRows(k) \o body \o DataRows(1) :
        k \in 0..MaxPrefix, body \in SeqsUpTo(DetectRowPool, MaxBody)}

\* header rows of the uploaded sheets
UploadRowPool == {HeaderFriendly, HeaderShuffled, HeaderFour}

\* the numbers of rows above the headers: few, or about max_rows
PrefixLengths == (0..2) \cup ((MaxPrefix - 2)..MaxPrefix)

\* title and blank rows, then up to MaxHeaders header rows, then data rows
HeaderSheets ==
    {TitleRows(k) \o body \o DataRows(d) :
        k \in PrefixLengths, body \in SeqsUpTo(UploadRowPool, MaxHeaders), d \in 0..MaxData}

Xlsx(sheet) == [empty |-> FALSE, sheet |-> sheet]
EmptyBytes == [empty |-> TRUE, sheet |-> <<>>]

\* a data row whose id does not fit the column
LongId == "X123456789X123456789X123456789X123456789X123456789X"
DataRowLong ==
    TextRow(<<LongId, "Kiran Rao", "9876500000", "", "2500", "3 acres", "well">>)

\* sheets with a repeated and with an overlong id
OddSheets ==
    {<<HeaderFriendly, DataRow1, DataRow1, DataRow2>>, <<HeaderFriendly, DataRowLong>>}

HeaderFiles == {Xlsx(sheet) : sheet \in HeaderSheets \cup OddSheets} \cup {EmptyBytes}

InitHeader ==
    /\ pc = "received"
    /\ file \in HeaderFiles
    /\ arg = NoArg /\ ret = NoRet
    /\ HandlerIdle
    /\ db = {} /\ uploads = 1

NextHeader ==
    \/ UploadEmpty
    \/ LoadExcel
    \/ ExtractDirect
    \/ ExtractContent
    \/ UploadUnmappable
    \/ Validate
    \/ InsertRow
    \/ InsertDuplicate
    \/ InsertFailed
    \/ Respond

SpecHeader == InitHeader /\ [][NextHeader]_vars

(***************************************************************************)
(* Sheets: the direct mapper on its own                                    *)
(***************************************************************************)
\* every field, the mobile number under two aliases
HeaderTwoMobiles ==
    TextRow(<<"App ID", "Customer Name", "Phone", "adhar no", "Total Loan Amount",
              "land_size", "Description", "MOBILE">>)
\* every field but total_land
HeaderSix ==
    TextRow(<<"id", "name", "mobile", "aadhaar", "amount", "Unnamed: 5", "remarks", "">>)
\* every field, two columns with one label
HeaderRepeated ==
    TextRow(<<"id", "name", "mobile", "aadhaar", "amount", "land", "remarks", "name">>)
WideData1 ==
    <<Str("LN-101"), Str(" Asha Rao "), PyInt("9876543210"), Str("123456789012"),
      PyFloat("50000.0"), Str("2 acres"), Str("tractor"), Str("9000000001")>>
WideData2 ==
    <<NaN, Str("Ravi"), NaN, NaN, NaN, Str(""), NaN, Str("Ravi K")>>
WideBlank == [j \in 1..8 |-> NaN]

ResolveRowPool ==
    {HeaderTwoMobiles, HeaderSix, HeaderRepeated, WideData1, WideData2, WideBlank}

MaxResolveRows == 3

ResolveFiles == {Xlsx(sheet) : sheet \in SeqsUpTo(ResolveRowPool, MaxResolveRows)}

\* a call of _resolve_field_mapping on the sheet read with some header row
CallResolve ==
    /\ pc = "received" /\ ~file.empty
    /\ \E h \in 0..(Len(file.sheet) - 1), order \in AliasOrders :
          /\ arg' = [header_row |-> h]
          /\ ret' = _resolve_field_mapping(read_excel(file.sheet, h), order)
    /\ pc' = "resolved"
    /\ UNCHANGED <<file, dframe, rows, mapping_source, batch_tag, i, inserted, skipped, failed,
                   db, uploads>>

\* a call of _extract_direct_rows on the sheet read with some header row
CallExtractDirect ==
    /\ pc = "received" /\ ~file.empty
    /\ \E h \in 0..(Len(file.sheet) - 1), order \in AliasOrders :
          /\ arg' = [header_row |-> h]
          /\ ret' = _extract_direct_rows(read_excel(file.sheet, h), order)
    /\ pc' = "extracted"
    /\ UNCHANGED <<file, dframe, rows, mapping_source, batch_tag, i, inserted, skipped, failed,
                   db, uploads>>

InitResolve ==
    /\ pc = "received"
    /\ file \in ResolveFiles
    /\ arg = NoArg /\ ret = NoRet
    /\ HandlerIdle
    /\ db = {} /\ uploads = 1

NextResolve == CallResolve \/ CallExtractDirect

SpecResolve == InitResolve /\ [][NextResolve]_vars

(***************************************************************************)
(* Sheets: the header locator on its own                                   *)
(***************************************************************************)
\* a call of _detect_header_row
CallDetect ==
    /\ pc = "received" /\ ~file.empty
    /\ ret' = _detect_header_row(file.sheet)
    /\ pc' = "detected"
    /\ UNCHANGED <<file, dframe, arg, rows, mapping_source, batch_tag, i, inserted, skipped,
                   failed, db, uploads>>

InitDetect ==
    /\ pc = "received"
    /\ file \in {Xlsx(sheet) : sheet \in DetectSheets}
    /\ arg = NoArg /\ ret = NoRet
    /\ HandlerIdle
    /\ db = {} /\ uploads = 1

NextDetect == CallDetect

SpecDetect == InitDetect /\ [][NextDetect]_vars

(***************************************************************************)
(* Uploads, one after another, into one loaners table                      *)
(***************************************************************************)
IdRow(id) ==
    <<id, Str("Asha Rao"), Str("9876543210"), Str("123456789012"), Str("50000"),
      Str("2 acres"), Str("tractor purchase")>>

\* the loaner_id cells of the uploaded rows
IdCells == {Str("A2"), Str("A10"), PyInt("7")}

MaxRows == 3
MaxUploads == 2

StoreSheets ==
    {<<HeaderFriendly>> \o body :
        body \in {[k \in 1..Len(q) |-> IdRow(q[k])] : q \in SeqsUpTo(IdCells, MaxRows)}}
    \cup {<<HeaderFriendly, DataRowLong, IdRow(Str("A2"))>>,
          <<TitleRow, DataRow1, DataRow2>>, <<TitleRow>>}

StoreFiles == {Xlsx(sheet) : sheet \in StoreSheets} \cup {EmptyBytes}

\* line 257: the next request arrives, with the table as the earlier ones left it
Receive ==
    /\ pc \in {"responded", "rejected"}
    /\ uploads < MaxUploads
    /\ uploads' = uploads + 1
    /\ file' \in StoreFiles
    /\ pc' = "received"
    /\ arg' = NoArg /\ ret' = NoRet
    /\ dframe' = NoFrame
    /\ rows' = <<>> /\ mapping_source' = "" /\ batch_tag' = ""
    /\ i' = 0 /\ inserted' = 0 /\ skipped' = 0 /\ failed' = 0
    /\ UNCHANGED db

Init ==
    /\ pc = "received"
    /\ file \in StoreFiles
    /\ arg = NoArg /\ ret = NoRet
    /\ HandlerIdle
    /\ db = {} /\ uploads = 1

Next ==
    \/ UploadEmpty
    \/ LoadExcel
    \/ ExtractDirect
    \/ ExtractContent
    \/ UploadUnmappable
    \/ Validate
    \/ InsertRow
    \/ InsertDuplicate
    \/ InsertFailed
    \/ Respond
    \/ Receive

Spec == Init /\ [][Next]_vars

(***************************************************************************)
(* _ensure_loaner_id on its own                                            *)
(***************************************************************************)
RawIds ==
    {None, Str(""), Str("   "), Str(" \n"), Str("L1"), Str(" L1 "), PyInt("7"),
     PyFloat("42.0"), Str("42.0"), Str("-0.0"), Str(".0"), Str("abc.0"), Str("0007")}

\* row indices around the widths of the zero-padded number
RowIndexes == {1, 2, 9, 10, 11, 99, 100, 999, 1000, 1001, 9999, 10000}

\* _ensure_loaner_id for two rows of one batch that hold the same cell
CallEnsure ==
    /\ pc = "calling"
    /\ ret' = [id |-> _ensure_loaner_id(arg.value, arg.index, arg.tag),
               other |-> _ensure_loaner_id(arg.value, arg.other, arg.tag)]
    /\ pc' = "ensured"
    /\ UNCHANGED <<file, dframe, arg, rows, mapping_source, batch_tag, i, inserted, skipped,
                   failed, db, uploads>>

InitEnsure ==
    /\ pc = "calling"
    /\ file = EmptyBytes
    /\ arg \in [value : RawIds, index : RowIndexes, other : RowIndexes, tag : BatchTags]
    /\ ret = NoRet
    /\ HandlerIdle
    /\ db = {} /\ uploads = 1

NextEnsure == CallEnsure

SpecEnsure == InitEnsure /\ [][NextEnsure]_vars

(***************************************************************************)
(* validate_and_clean on its own                                           *)
(***************************************************************************)
MobileValues ==
    {None, Str(""), PyInt("0"), PyFloat("0.0"), Str("9876543210"), PyInt("9876543210"),
     Str("5876543210"), Str("98765"), Str("9876543210\n"), Str("abc")}
AdharValues ==
    {None, Str(""), PyInt("0"), Str("123456789012"), PyInt("123456789012"),
     Str("1234 5678 9012")}
AmountValues ==
    {None, Str(""), PyInt("0"), Str("50000"), PyFloat("1500.5"), Str("12,000"), Str("abc")}

BaseRow ==
    [field \in FieldSet |->
        IF field = "loaner_id" THEN Str("LN-1")
        ELSE IF field = "fullname" THEN Str("Asha Rao")
        ELSE IF field = "total_land" THEN Str("")
        ELSE None]

MappedRows ==
    {[BaseRow EXCEPT !["mobile_no"] = m, !["loaner_adhar"] = a, !["total_amount"] = t] :
        m \in MobileValues, a \in AdharValues, t \in AmountValues}

MaxList == 2

\* up to MaxList rows, the last one any of MappedRows
MappedLists ==
    {<<>>} \cup {[k \in 1..n |-> IF k < n THEN BaseRow ELSE r] : n \in 1..MaxList, r \in MappedRows}

CallValidate ==
    /\ pc = "calling"
    /\ ret' = [status |-> "returned", rows |-> validate_and_clean(rows)]
    /\ pc' = "validated"
    /\ UNCHANGED <<file, dframe, arg, rows, mapping_source, batch_tag, i, inserted, skipped,
                   failed, db, uploads>>

InitValidate ==
    /\ pc = "calling"
    /\ file = EmptyBytes
    /\ arg = NoArg /\ ret = NoRet
    /\ dframe = NoFrame
    /\ rows \in MappedLists
    /\ mapping_source = "" /\ batch_tag = ""
    /\ i = 0 /\ inserted = 0 /\ skipped = 0 /\ failed = 0
    /\ db = {} /\ uploads = 1

NextValidate == CallValidate

SpecValidate == InitValidate /\ [][NextValidate]_vars

(***************************************************************************)
(* _extract_rows_by_content on its own                                     *)
(***************************************************************************)
ExampleRow ==
    <<Str("LN-102"), Str("Jane Q Public"), Str("9876543210"), Str("123456789012"),
      Str("50000"), Str("2 acres"), Str("tractor purchase")>>

ContentCells ==
    {Str("LN-102"), Str("Jane Q Public"), Str("9876543210"), Str("123456789012"),
     Str("5000"), Str("2 acres"), Str("tractor purchase"), Str("M 9876543210"),
     PyFloat("42.0"), Str("ha 123456789012")}

MaxCells == 3

ContentRows == SeqsUpTo(ContentCells, MaxCells) \cup {ExampleRow}

\* a row of empty and blank cells
SpacesRow == <<NaN, Str("  ")>>

\* one row, alone or below a row without values
ContentFrames ==
    {[columns |-> <<>>, data |-> above \o <<row>>] :
        above \in {<<>>, <<SpacesRow>>}, row \in ContentRows}

CallClassify ==
    /\ pc = "calling"
    /\ ret' = [none |-> _extract_rows_by_content(dframe).none,
               rows |-> _extract_rows_by_content(dframe).rows,
               origin |-> origin_rows(dropna_all(dframe).data, 1)]
    /\ pc' = "classified"
    /\ UNCHANGED <<file, dframe, arg, rows, mapping_source, batch_tag, i, inserted, skipped,
                   failed, db, uploads>>

InitClassify ==
    /\ pc = "calling"
    /\ file = EmptyBytes
    /\ arg = NoArg /\ ret = NoRet
    /\ dframe \in ContentFrames
    /\ rows = <<>> /\ mapping_source = "" /\ batch_tag = ""
    /\ i = 0 /\ inserted = 0 /\ skipped = 0 /\ failed = 0
    /\ db = {} /\ uploads = 1

NextClassify == CallClassify

SpecClassify == InitClassify /\ [][NextClassify]_vars

(***************************************************************************)
(* llm_service: JSON values                                                *)
(***************************************************************************)
\* a JSON value as Python holds it: t is its type, s its text when it is a
\* str, bool or number, items its elements (list) or its key-value pairs (dict)
JNull == [t |-> "None", s |-> "", items |-> <<>>]
JBool(b) == [t |-> "bool", s |-> IF b THEN "True" ELSE "False", items |-> <<>>]
JNum(text) == [t |-> "number", s |-> text, items |-> <<>>]
JStr(text) == [t |-> "str", s |-> text, items |-> <<>>]
JList(items) == [t |-> "list", s |-> "", items |-> items]
JDict(pairs) == [t |-> "dict", s |-> "", items |-> pairs]

Pair(key, val) == [key |-> key, val |-> val]

\* d[key] = val
dict_set(pairs, key, val) ==
    IF \E k \in 1..Len(pairs) : pairs[k].key = key
    THEN [k \in 1..Len(pairs) |-> IF pairs[k].key = key THEN Pair(key, val) ELSE pairs[k]]
    ELSE Append(pairs, Pair(key, val))

\* d.get(key, default)
dict_get(d, key, default) ==
    IF \E k \in 1..Len(d.items) : d.items[k].key = key
    THEN d.items[CHOOSE k \in 1..Len(d.items) : d.items[k].key = key].val
    ELSE default

\* bool(value)
JTruthy(v) ==
    IF v.t = "None" THEN FALSE
    ELSE IF v.t = "bool" THEN v.s = "True"
    ELSE IF v.t = "number" THEN v.s \notin {"0", "-0", "0.0", "-0.0"}
    ELSE IF v.t = "str" THEN v.s # ""
    ELSE v.items # <<>>

(***************************************************************************)
(* json.loads: objects, arrays, strings, numbers, true, false, null        *)
(***************************************************************************)
JWhitespace == {" ", "\t", "\n", "\r"}

RECURSIVE skip_ws(_, _)
skip_ws(text, p) ==
    IF p <= Len(text) /\ Ch(text, p) \in JWhitespace THEN skip_ws(text, p + 1) ELSE p

\* a JSONDecodeError
Undecoded == [ok |-> FALSE, val |-> JNull, pos |-> 0]
Decoded(val, pos) == [ok |-> TRUE, val |-> val, pos |-> pos]

At(text, p, word) ==
    p + Len(word) - 1 <= Len(text) /\ SubSeq(text, p, p + Len(word) - 1) = word

RECURSIVE scan_digits(_, _)
scan_digits(text, p) ==
    IF p <= Len(text) /\ IsDigit(Ch(text, p)) THEN scan_digits(text, p + 1) ELSE p

\* the string whose opening quote is before p; acc is what was read of it
RECURSIVE scan_string(_, _, _)
scan_string(text, p, acc) ==
    IF p > Len(text) THEN Undecoded
    ELSE IF Ch(text, p) = "\"" THEN Decoded(JStr(acc), p + 1)
    ELSE IF Ch(text, p) \in {"\n", "\t", "\r"} THEN Undecoded
    ELSE IF Ch(text, p) # "\\" THEN scan_string(text, p + 1, acc \o Ch(text, p))
    ELSE IF p + 1 > Len(text) THEN Undecoded
    ELSE IF Ch(text, p + 1) \in {"\"", "\\", "/"}
    THEN scan_string(text, p + 2, acc \o Ch(text, p + 1))
    ELSE IF Ch(text, p + 1) = "n" THEN scan_string(text, p + 2, acc \o "\n")
    ELSE IF Ch(text, p + 1) = "t" THEN scan_string(text, p + 2, acc \o "\t")
    ELSE Undecoded

\* -?(0|[1-9][0-9]*)(\.[0-9]+)? at p
scan_number(text, p) ==
    LET first == IF Ch(text, p) = "-" THEN p + 1 ELSE p
        int_end == IF first <= Len(text) /\ Ch(text, first) = "0" THEN first + 1
                   ELSE scan_digits(text, first)
        frac_end == IF int_end < Len(text) /\ Ch(text, int_end) = "."
                    THEN scan_digits(text, int_end + 1) ELSE int_end
        end == IF frac_end > int_end + 1 THEN frac_end ELSE int_end
    IN  IF int_end = first THEN Undecoded
        ELSE Decoded(JNum(SubSeq(text, p, end - 1)), end)

RECURSIVE parse_value(_, _)
RECURSIVE parse_items(_, _, _)
RECURSIVE parse_members(_, _, _)

\* the value that starts at p
parse_value(text, p) ==
    IF p > Len(text) THEN Undecoded
    ELSE IF Ch(text, p) = "\"" THEN scan_string(text, p + 1, "")
    ELSE IF Ch(text, p) = "["
    THEN (IF At(text, skip_ws(text, p + 1), "]")
          THEN Decoded(JList(<<>>), skip_ws(text, p + 1) + 1)
          ELSE parse_items(text, skip_ws(text, p + 1), <<>>))
    ELSE IF Ch(text, p) = "{"
    THEN (IF At(text, skip_ws(text, p + 1), "}")
          THEN Decoded(JDict(<<>>), skip_ws(text, p + 1) + 1)
          ELSE parse_members(text, skip_ws(text, p + 1), <<>>))
    ELSE IF At(text, p, "null") THEN Decoded(JNull, p + 4)
    ELSE IF At(text, p, "true") THEN Decoded(JBool(TRUE), p + 4)
    ELSE IF At(text, p, "false") THEN Decoded(JBool(FALSE), p + 5)
    ELSE IF Ch(text, p) = "-" \/ IsDigit(Ch(text, p)) THEN scan_number(text, p)
    ELSE Undecoded

\* the elements of an array from p on, after those of acc
parse_items(text, p, acc) ==
    LET item == parse_value(text, p)
        q == skip_ws(text, item.pos)
    IN  IF ~item.ok THEN Undecoded
        ELSE IF At(text, q, ",")
        THEN parse_items(text, skip_ws(text, q + 1), Append(acc, item.val))
        ELSE IF At(text, q, "]") THEN Decoded(JList(Append(acc, item.val)), q + 1)
        ELSE Undecoded

\* the members of an object from p on, after those of acc
parse_members(text, p, acc) ==
    LET key == IF At(text, p, "\"") THEN scan_string(text, p + 1, "") ELSE Undecoded
        colon == skip_ws(text, key.pos)
        member == IF key.ok /\ At(text, colon, ":")
                  THEN parse_value(text, skip_ws(text, colon + 1)) ELSE Undecoded
        q == skip_ws(text, member.pos)
    IN  IF ~member.ok THEN Undecoded
        ELSE IF At(text, q, ",")
        THEN parse_members(text, skip_ws(text, q + 1), dict_set(acc, key.val.s, member.val))
        ELSE IF At(text, q, "}")
        THEN Decoded(JDict(dict_set(acc, key.val.s, member.val)), q + 1)
        ELSE Undecoded

json_loads(text) ==
    LET parsed == parse_value(text, skip_ws(text, 1))
    IN  IF parsed.ok /\ skip_ws(text, parsed.pos) > Len(text)
        THEN [ok |-> TRUE, val |-> parsed.val]
        ELSE [ok |-> FALSE, val |-> JNull]

(***************************************************************************)
(* llm_service: _strip_code_fences, _parse_mapped_payload, call_llm_async  *)
(***************************************************************************)
\* the grave accent, which no string of this module can hold, is written ~
FENCE == "~"

_strip_code_fences(text0) ==
    LET text == Strip(text0)
        unfenced == StripCh(text, FENCE)
    IN  IF StartsWith(text, FENCE \o FENCE \o FENCE)
        THEN (IF StartsWith(StrLower(unfenced), "json")
              THEN Strip(SubSeq(unfenced, 5, Len(unfenced)))
              ELSE Strip(unfenced))
        ELSE text

\* raise HTTPException(status_code, detail)
Raised(status_code, detail) ==
    [raised |-> TRUE, status_code |-> status_code, detail |-> detail, value |-> JNull]
Returned(value) ==
    [raised |-> FALSE, status_code |-> 200, detail |-> "", value |-> value]

RECURSIVE _parse_mapped_payload(_)
_parse_mapped_payload(mapped) ==
    IF mapped.t = "dict" THEN Returned(JList(<<mapped>>))
    ELSE IF mapped.t = "list"
    THEN (IF \A k \in 1..Len(mapped.items) : mapped.items[k].t = "dict"
          THEN Returned(mapped)
          ELSE Raised(502, "LLM returned a list with non-object items"))
    ELSE IF mapped.t = "str"
    THEN (IF json_loads(_strip_code_fences(mapped.s)).ok
          THEN _parse_mapped_payload(json_loads(_strip_code_fences(mapped.s)).val)
          ELSE Raised(502, "LLM returned invalid JSON string"))
    ELSE Raised(502, "Unsupported LLM response format")

\* lines 97-106 on the decoded body; a .get on a value that is no dict is the
\* AttributeError of line 113
completed_result(result) ==
    IF result.t # "dict" THEN Raised(500, "AttributeError")
    ELSE IF dict_get(result, "status", JNull) # JStr("completed")
    THEN Raised(502, "LLM workflow failed")
    ELSE IF dict_get(result, "result", JDict(<<>>)).t # "dict"
    THEN Raised(500, "AttributeError")
    ELSE IF ~JTruthy(dict_get(dict_get(result, "result", JDict(<<>>)), "result", JNull))
    THEN Raised(502, "Empty mapped payload from LLM")
    ELSE _parse_mapped_payload(
             dict_get(dict_get(result, "result", JDict(<<>>)), "result", JNull))

\* env: whether API_URL and DVARA_TOKEN are set; http: what the POST gives
call_llm_async(env, http) ==
    IF ~env.API_URL THEN Raised(500, "Missing API_URL in environment")
    ELSE IF ~env.TOKEN THEN Raised(500, "Missing DVARA_TOKEN in environment")
    ELSE IF http.kind = "RequestError" THEN Raised(502, "Failed to call LLM API")
    ELSE IF http.kind = "HTTPStatusError" THEN Raised(502, "LLM API HTTP")
    ELSE IF http.kind = "not_json" THEN Raised(502, "LLM API returned non-JSON response")
    ELSE completed_result(http.body)

(***************************************************************************)
(* Responses of the LLM API                                                *)
(***************************************************************************)
Item1 == JDict(<<Pair("loaner_id", JStr("L1"))>>)
Item2 == JDict(<<Pair("loaner_id", JStr("L2")), Pair("total_amount", JNum("1500.5"))>>)

\* what result.result can hold
Payloads ==
    {JNull, JBool(TRUE), JNum("0"), JNum("5"), JStr(""), JStr("   "),
     JDict(<<>>), JList(<<>>), Item1, JList(<<Item1>>), JList(<<Item1, Item2>>),
     JList(<<Item1, JNum("5")>>), JList(<<JDict(<<>>)>>),
     JStr("[]"), JStr("{}"), JStr(" [ ] "), JStr("\"[]\""), JStr("null"), JStr("5"),
     JStr("[1, 2]"), JStr("not json"), JStr("[{\"loaner_id\": \"L1\"},]"),
     JStr("{\"loaner_id\": \"L1\"}"),
     JStr("[{\"loaner_id\": \"L1\"}, {\"loaner_id\": \"L2\", \"total_amount\": 1500.5}]"),
     JStr("~~~json\n[]\n~~~"), JStr("~~~\n{}\n~~~"), JStr("~~~JSON\n[{\"loaner_id\": \"L1\"}]\n~~~"),
     JStr("~~~json~~~")}

Completed(inner) == JDict(<<Pair("status", JStr("completed")), Pair("result", inner)>>)

Bodies ==
    {Completed(JDict(<<Pair("result", payload)>>)) : payload \in Payloads}
    \cup {Completed(JDict(<<>>)), Completed(JNull), Completed(JStr("[]")),
          JDict(<<Pair("status", JStr("completed"))>>),
          JDict(<<Pair("status", JStr("failed")), Pair("error", JStr("timeout"))>>),
          JDict(<<Pair("result", JDict(<<Pair("result", JList(<<Item1>>))>>))>>),
          JList(<<Item1>>)}

NoBody == JNull

HttpOutcomes ==
    {[kind |-> k, body |-> NoBody] : k \in {"RequestError", "HTTPStatusError", "not_json"}}
    \cup {[kind |-> "json", body |-> body] : body \in Bodies}

Environments == [API_URL : BOOLEAN, TOKEN : BOOLEAN]

\* lines 106, 108-114: the call returns a list
LlmReturns ==
    /\ pc = "calling"
    /\ ~call_llm_async(arg.env, arg.http).raised
    /\ ret' = call_llm_async(arg.env, arg.http)
    /\ pc' = "returned"
    /\ UNCHANGED <<file, dframe, arg, rows, mapping_source, batch_tag, i, inserted, skipped,
                   failed, db, uploads>>

\* the call raises an HTTPException
LlmRaises ==
    /\ pc = "calling"
    /\ call_llm_async(arg.env, arg.http).raised
    /\ ret' = call_llm_async(arg.env, arg.http)
    /\ pc' = "raised"
    /\ UNCHANGED <<file, dframe, arg, rows, mapping_source, batch_tag, i, inserted, skipped,
                   failed, db, uploads>>

InitLLM ==
    /\ pc = "calling"
    /\ file = EmptyBytes
    /\ arg \in [env : Environments, http : HttpOutcomes]
    /\ ret = NoRet
    /\ HandlerIdle
    /\ db = {} /\ uploads = 1

NextLLM == LlmReturns \/ LlmRaises

SpecLLM == InitLLM /\ [][NextLLM]_vars

(***************************************************************************)
(* C3: _detect_header_row returns the first row of the highest score among *)
(* the first 15 rows when that score is at least 4, otherwise no row; and  *)
(* a row naming all 7 fields ends the scan.                                *)
(***************************************************************************)
\* the fields that some non-empty cell of the row names by one of its aliases
FieldsNamedBy(cell) ==
    IF Strip(PyStr(cell)) = "" THEN {}
    ELSE UNION {{f \in FieldSet :
                    \E a \in Range(FIELD_ALIASES[f]) : alias_normalized[a] = n} :
                n \in {_normalize_column_name(cell)}}

FieldsNamed(cells) == UNION {FieldsNamedBy(cells[j]) : j \in 1..Len(cells)}

RowScores(sheet) ==
    Table([r \in 0..((IF Len(sheet) < 15 THEN Len(sheet) ELSE 15) - 1) |->
              Cardinality(FieldsNamed(sheet[r + 1]))])

DetectAgrees(scores, result) ==
    LET window == DOMAIN scores
        IsTop(r) == \A o \in window : scores[o] <= scores[r]
        IsFirstTop(r) == IsTop(r) /\ \A o \in window : IsTop(o) => r <= o
    IN  IF \A r \in window : scores[r] < 4
        THEN result.row = AbsentRow
        ELSE /\ result.row \in window
             /\ IsFirstTop(result.row)
             /\ scores[result.row] = 7 => result.examined = result.row + 1

ThmC3 ==
    pc = "detected" => \A scores \in {RowScores(file.sheet)} : DetectAgrees(scores, ret)

\* a header of all 7 fields in row 7 is found without reading the rows below
WitC3 ==
    /\ pc = "detected"
    /\ Len(file.sheet) > 8
    /\ ret.row = 7 /\ ret.examined = 8
    /\ Cardinality(FieldsNamed(file.sheet[8])) = 7

(***************************************************************************)
(* C2: _resolve_field_mapping returns a column for each of the 7 fields    *)
(* when every field has an alias among the normalized, labelled headers,   *)
(* and None otherwise, never a mapping of fewer fields; and                *)
(* _extract_direct_rows returns rows exactly when the mapping is complete. *)
(***************************************************************************)
\* the normalized labels of the columns, the unnamed ones left out
LabelsOf(columns) ==
    {n \in {_normalize_column_name(columns[j]) : j \in 1..Len(columns)} :
        ~StartsWith(n, "unnamed")}

FieldsLabelled(labels) ==
    {f \in FieldSet : \E a \in Range(FIELD_ALIASES[f]) : alias_normalized[a] \in labels}

NamesField(label, f) ==
    \E n \in {_normalize_column_name(label)} :
        \E a \in Range(FIELD_ALIASES[f]) : alias_normalized[a] = n

ResolveAgrees(columns, result) ==
    \A labelled \in {FieldsLabelled(LabelsOf(columns))} :
        IF labelled = FieldSet
        THEN /\ ~result.none
             /\ DOMAIN result.field_to_column = FieldSet
             /\ \A f \in FieldSet :
                   /\ result.field_to_column[f] \in 1..Len(columns)
                   /\ NamesField(columns[result.field_to_column[f]], f)
        ELSE result.none

ExtractAgrees(df, result) ==
    \A labelled \in {FieldsLabelled(LabelsOf(df.columns))} :
        /\ ~result.error
        /\ result.none <=> labelled # FieldSet
        /\ ~result.none => Len(result.rows) = Len(dropna_all(df).data)

ThmC2 ==
    /\ pc = "resolved" =>
          ResolveAgrees(read_excel(file.sheet, arg.header_row).columns, ret)
    /\ pc = "extracted" => ExtractAgrees(read_excel(file.sheet, arg.header_row), ret)

\* a complete mapping where two columns are labelled with aliases of mobile_no
WitC2 ==
    /\ pc = "resolved"
    /\ file.sheet[arg.header_row + 1] = HeaderTwoMobiles
    /\ ~ret.none
    /\ ret.field_to_column["mobile_no"] \in {3, 8}

(***************************************************************************)
(* C1: when row 0 as the header does not give all 7 fields and some of the *)
(* first 15 rows hold an alias of every field, the upload is parsed with   *)
(* the first such row h as the header, mapped by the headers               *)
(* (mapping_source "direct_header") and gives one mapped row per non-empty *)
(* row below h.                                                            *)
(***************************************************************************)
\* the rows of the first 15 that hold an alias of every field (0-based)
FullRows(sheet) ==
    {h \in 0..((IF Len(sheet) < 15 THEN Len(sheet) ELSE 15) - 1) :
        FieldsNamed(sheet[h + 1]) = FieldSet}

NaiveHeaderMaps(sheet) ==
    Len(sheet) > 0 /\ FieldsLabelled(LabelsOf(HeaderLabels(sheet[1]))) = FieldSet

\* the number of rows below row h (0-based) with a cell that is not empty
NonEmptyBelow(sheet, h) ==
    Cardinality({r \in (h + 2)..Len(sheet) : \E j \in 1..Len(sheet[r]) : ~IsNA(sheet[r][j])})

Mapped == pc \in {"mapped", "inserting", "responded"}

ParsedFrom(sheet, h) ==
    /\ arg.header_row = h
    /\ mapping_source = "direct_header"
    /\ Len(rows) = NonEmptyBelow(sheet, h)

ThmC1 ==
    (Mapped /\ ~NaiveHeaderMaps(file.sheet)) =>
        \A full \in {FullRows(file.sheet)} :
            \A h \in full : (\A o \in full : h <= o) => ParsedFrom(file.sheet, h)

\* two rows of titles, the headers in row 2, three data rows
WitC1 ==
    /\ pc = "responded"
    /\ file.sheet = TitleRows(2) \o <<HeaderFriendly>> \o DataRows(3)
    /\ arg.header_row = 2
    /\ ret.mapping_source = "direct_header"
    /\ ret.total_processed = 3

\* C1 as stated: whichever of the first 15 rows holds an alias of every field
\* is the header the upload is parsed with
OrigC1 ==
    (Mapped /\ ~NaiveHeaderMaps(file.sheet)) =>
        \A full \in {FullRows(file.sheet)} : \A h \in full : ParsedFrom(file.sheet, h)

(***************************************************************************)
(* C8: the rows of an upload are inserted one at a time and each is        *)
(* counted once, as inserted, skipped or failed; a row whose loaner_id is  *)
(* that of a persisted record adds one to skipped and nothing to failed,   *)
(* leaves the table as it was, and the rows after it are still attempted.  *)
(***************************************************************************)
Attempting == pc = "inserting" /\ i <= Len(rows)

KeyPersisted == \E r \in db : r["loaner_id"] = row_to_insert["loaner_id"]

CountedOnce ==
    pc \in {"inserting", "responded"} =>
        /\ inserted + skipped + failed = i - 1
        /\ pc = "responded" =>
              /\ i - 1 = Len(rows)
              /\ ret.rows_inserted = inserted
              /\ ret.duplicates_skipped = skipped
              /\ ret.failed_rows = failed

AttemptStep ==
    Attempting =>
        /\ pc' = "inserting" /\ i' = i + 1
        /\ <<inserted', skipped', failed'>> \in
              {<<inserted + 1, skipped, failed>>, <<inserted, skipped + 1, failed>>,
               <<inserted, skipped, failed + 1>>}
        /\ KeyPersisted => skipped' = skipped + 1 /\ failed' = failed /\ db' = db

Persistent == \A r \in db : r \in db'

ThmC8 == []CountedOnce /\ [][AttemptStep /\ Persistent]_vars

\* the second upload repeats an id of the first and then its own, and its last
\* row is inserted
WitC8 ==
    /\ pc = "responded" /\ uploads = 2
    /\ file.sheet = <<HeaderFriendly, IdRow(Str("A2")), IdRow(Str("A2")), IdRow(Str("A10"))>>
    /\ ret.duplicates_skipped = 2 /\ ret.rows_inserted = 1 /\ ret.failed_rows = 0

(***************************************************************************)
(* C7: the records of the upload response are in the order of              *)
(* _loaner_sort_key: prefix-and-digits ids first, by lowercased prefix,    *)
(* then by number ("A2" before "A10"), then by lowercased text.            *)
(***************************************************************************)
InSortKeyOrder(data) ==
    \A k \in 1..(Len(data) - 1) :
        ~KeyLess(_loaner_sort_key(data[k + 1]["loaner_id"]),
                 _loaner_sort_key(data[k]["loaner_id"]))

CexC7 == pc = "responded" => InSortKeyOrder(ret.data)

(***************************************************************************)
(* C6: _ensure_loaner_id returns a non-empty text; for a null or blank id  *)
(* it returns "AUTO", the batch tag and the row index padded with zeros to *)
(* at least 4 digits, and two row indices of one batch give two ids.       *)
(***************************************************************************)
Blank(value) ==
    value = None \/ \A k \in 1..Len(PyStr(value)) : IsSpace(Ch(PyStr(value), k))

Padded4(index) ==
    IF index < 10 THEN "000" \o IntStr(index)
    ELSE IF index < 100 THEN "00" \o IntStr(index)
    ELSE IF index < 1000 THEN "0" \o IntStr(index)
    ELSE IntStr(index)

ThmC6 ==
    pc = "ensured" =>
        /\ ret.id # "" /\ ret.other # ""
        /\ Blank(arg.value) =>
              /\ ret.id = "AUTO" \o arg.tag \o Padded4(arg.index)
              /\ arg.index # arg.other => ret.id # ret.other

\* a cell of spaces in rows 999 and 9999 of one batch
WitC6 ==
    /\ pc = "ensured"
    /\ arg.value = Str("   ") /\ arg.index = 999 /\ arg.other = 9999
    /\ ret.id = "AUTO" \o arg.tag \o "0999"
    /\ ret.other = "AUTO" \o arg.tag \o "9999"

(***************************************************************************)
(* C5: every row validate_and_clean returns has mobile_no null or ten      *)
(* digits starting 6-9, loaner_adhar null or twelve digits, total_amount   *)
(* null or a number, and the other four fields as they came in.            *)
(***************************************************************************)
IsNumber(v) == v.t \in {"int", "float"}

CleanRow(in, out) ==
    /\ out["mobile_no"] = None \/ IsMobile(PyStr(out["mobile_no"]))
    /\ out["loaner_adhar"] = None \/ IsAdhar(PyStr(out["loaner_adhar"]))
    /\ out["total_amount"] = None \/ IsNumber(out["total_amount"])
    /\ \A field \in {"loaner_id", "fullname", "total_land", "descrition"} :
          out[field] = in[field]

CexC5 ==
    pc = "validated" =>
        /\ Len(ret.rows) = Len(rows)
        /\ \A k \in 1..Len(rows) : CleanRow(rows[k], ret.rows[k])

(***************************************************************************)
(* C4: the classifier gives each cell, left to right, to the first rule it *)
(* meets: a land word, 12 digits, 10 digits starting 6-9, the id pattern,  *)
(* each while its field is free, else the number or the text pool; then    *)
(* the longest text is descrition, the first other text of at most 4 words *)
(* fullname, the first number >= 1000 total_amount. The row "LN-102",      *)
(* "Jane Q Public", "9876543210", "123456789012", "50000", "2 acres",      *)
(* "tractor purchase" gives exactly these seven fields.                    *)
(***************************************************************************)
First(S) == IF S = {} THEN 0 ELSE CHOOSE k \in S : \A m \in S : k <= m

Cells(values) == 1..Len(values)

LandCell(values) == First({k \in Cells(values) : HasLandWord(StrLower(TextOf(values, k)))})

\* the first cell of 12 digits that is not the land cell
AdharCell(values, land) ==
    First({k \in Cells(values) \ {land} : Len(OnlyDigits(TextOf(values, k))) = 12})

\* the first cell of 10 digits starting 6-9 that is not the land cell
MobileCell(values, land) ==
    First({k \in Cells(values) \ {land} :
              /\ Len(OnlyDigits(TextOf(values, k))) = 10
              /\ Ch(OnlyDigits(TextOf(values, k)), 1) \in {"6", "7", "8", "9"}})

\* the first cell of the id pattern that none of the rules above has taken
IdCell(values, taken) ==
    First({k \in Cells(values) \ taken : IsIdPattern(TextOf(values, k))})

NumberCells(values, pooled) == {k \in pooled : IsPlainNumber(TextOf(values, k))}

DescrCell(values, texts) ==
    First({k \in texts :
              \A m \in texts : Len(TextOf(values, m)) <= Len(TextOf(values, k))})

NameCell(values, texts, descr) ==
    First({k \in texts :
              /\ TextOf(values, k) # TextOf(values, descr)
              /\ WordCount(TextOf(values, k), FALSE) <= 4})

AmountCell(values, numbers) ==
    First({k \in numbers : FloatGE(FloatOfPlain(TextOf(values, k)), 1000)})

TextAt(values, k) == IF k = 0 THEN None ELSE Str(TextOf(values, k))
DigitsAt(values, k) == IF k = 0 THEN None ELSE Str(OnlyDigits(TextOf(values, k)))

PoolsClassified(values, row, pooled) ==
    \A numbers \in {NumberCells(values, pooled)} :
        \A descr \in {DescrCell(values, pooled \ numbers)} :
            /\ row["descrition"] = TextAt(values, descr)
            /\ row["fullname"] = TextAt(values, NameCell(values, pooled \ numbers, descr))
            /\ \A amount \in {AmountCell(values, numbers)} :
                  row["total_amount"] =
                      IF amount = 0 THEN None ELSE FloatOfPlain(TextOf(values, amount))

Classified(values, row) ==
    \A land \in {LandCell(values)} :
        \A adhar \in {AdharCell(values, land)}, mobile \in {MobileCell(values, land)} :
            \A id \in {IdCell(values, {land, adhar, mobile})} :
                /\ row["total_land"] = TextAt(values, land)
                /\ row["loaner_adhar"] = DigitsAt(values, adhar)
                /\ row["mobile_no"] = DigitsAt(values, mobile)
                /\ id # 0 => row["loaner_id"] = Str(RemoveSpaces(TextOf(values, id)))
                /\ PoolsClassified(values, row, Cells(values) \ {land, adhar, mobile, id})

ExampleClassified ==
    [loaner_id |-> Str("LN-102"), fullname |-> Str("Jane Q Public"),
     mobile_no |-> Str("9876543210"), loaner_adhar |-> Str("123456789012"),
     total_amount |-> PyFloat("50000.0"), total_land |-> Str("2 acres"),
     descrition |-> Str("tractor purchase")]

\* the rows of the frame that have values, in order
ValuedRows(df) ==
    LET HasValues(row) == row_values(row) # <<>>
    IN  SelectSeq(df.data, HasValues)

ThmC4 ==
    pc = "classified" =>
        \A valued \in {ValuedRows(dframe)} :
            /\ Len(ret.rows) = Len(valued)
            /\ \A k \in 1..Len(valued) :
                  /\ \A values \in {row_values(valued[k])} : Classified(values, ret.rows[k])
                  /\ valued[k] = ExampleRow => ret.rows[k] = ExampleClassified

\* the example row, below a row without values
WitC4 ==
    /\ pc = "classified"
    /\ dframe.data = <<SpacesRow, ExampleRow>>
    /\ ret.rows = <<ExampleClassified>>

(***************************************************************************)
(* C10: in a row of the classifier no cell is the source of two fields: the*)
(* number taken as total_amount is not the one taken as loaner_id.         *)
(***************************************************************************)
OneFieldPerCell(origin) ==
    \A f \in FieldSet, g \in FieldSet :
        (f # g /\ origin[f] # 0) => origin[f] # origin[g]

CexC10 == pc = "classified" => \A k \in 1..Len(ret.origin) : OneFieldPerCell(ret.origin[k])

(***************************************************************************)
(* C9: call_llm_async returns only non-empty lists of JSON objects, and a  *)
(* completed response whose payload is an empty object or array, or a      *)
(* string, fenced or not, that decodes to one, is rejected with a 502.     *)
(***************************************************************************)
NonEmptyObjects(value) ==
    /\ value.t = "list"
    /\ value.items # <<>>
    /\ \A k \in 1..Len(value.items) : value.items[k].t = "dict"

EmptyContainer(value) == value.t \in {"list", "dict"} /\ value.items = <<>>

\* the payload of a completed response is empty in an accepted encoding
EmptyPayload(http) ==
    /\ http.kind = "json"
    /\ \E payload \in Payloads :
          /\ http.body = Completed(JDict(<<Pair("result", payload)>>))
          /\ \/ EmptyContainer(payload)
             \/ /\ payload.t = "str"
                /\ json_loads(_strip_code_fences(payload.s)).ok
                /\ EmptyContainer(json_loads(_strip_code_fences(payload.s)).val)

CexC9 ==
    /\ pc = "returned" => NonEmptyObjects(ret.value)
    /\ (pc \in {"returned", "raised"} /\ arg.env.API_URL /\ arg.env.TOKEN
            /\ EmptyPayload(arg.http)) =>
          (pc = "raised" /\ ret.status_code = 502)

====
